---- MODULE Spec2Model ----
(***************************************************************************)
(* Model of the webhook notification channel of ponghub                    *)
(* (internal/notifier/channels/webhook.go): WebhookNotifier.Send, the      *)
(* payload builders, authentication and the retry loop.                    *)
(*                                                                         *)
(* A Go string is a finite sequence of symbols.  A symbol is one character *)
(* ("{", "\"", "\n", ...) or an indivisible run of letters ("alert",       *)
(* "Bearer"): no operation of the code looks inside such a run.            *)
(***************************************************************************)
EXTENDS Integers, Sequences, FiniteSets, TLC

(***************************************************************************)
(* Bounds of the model.                                                    *)
(***************************************************************************)
\* longest title drawn for Send
MaxTitleLen == 1
\* longest message drawn for Send
MaxMessageLen == 1
\* largest configured retry count
MaxRetries == 2
\* number of concurrent Send calls
NumCalls == 2
\* last value of the wall clock
MaxClock == 1

(***************************************************************************)
(* Strings.                                                                *)
(***************************************************************************)
Q == "\""
BS == "\\"
LF == "\n"
SP == " "

\* "" in Go
Empty == <<>>

\* the one-word string
W(word) == <<word>>

\* `"s"`: fmt.Sprintf(`"%s"`, s)
Quoted(s) == <<Q>> \o s \o <<Q>>

\* s[i..] as a string
Drop(s, n) == SubSeq(s, n + 1, Len(s))

\* strings.HasPrefix
HasPrefix(s, p) == Len(p) <= Len(s) /\ SubSeq(s, 1, Len(p)) = p

\* strings.Contains
Contains(s, sub) ==
  \E i \in 0..(Len(s) - Len(sub)) : SubSeq(s, i + 1, i + Len(sub)) = sub

\* unicode.ToLower of one symbol (a run of letters is lowered letter by letter)
LowerSym(c) ==
  CASE c = "Bearer" -> "bearer"
    [] c = "BEARER" -> "bearer"
    [] c = "Basic" -> "basic"
    [] c = "BASIC" -> "basic"
    [] c = "ApiKey" -> "apikey"
    [] c = "APIKEY" -> "apikey"
    [] c = "Slack" -> "slack"
    [] c = "SLACK" -> "slack"
    [] c = "Discord" -> "discord"
    [] c = "Teams" -> "teams"
    [] c = "Mattermost" -> "mattermost"
    [] c = "POST" -> "post"
    [] c = "Put" -> "put"
    [] c = "PUT" -> "put"
    [] OTHER -> c

\* strings.ToLower
ToLower(s) == [i \in DOMAIN s |-> LowerSym(s[i])]

\* unicode.ToUpper of one symbol
UpperSym(c) ==
  CASE c = "post" -> "POST"
    [] c = "Put" -> "PUT"
    [] c = "put" -> "PUT"
    [] OTHER -> c

\* strings.ToUpper
ToUpper(s) == [i \in DOMAIN s |-> UpperSym(s[i])]

\* the finite sequences over S of length at most n
SeqsUpTo(S, n) == UNION {[1..k -> S] : k \in 0..n}

\* byte order of the symbols that occur in map keys (Go sorts map keys when
\* it marshals a map)
ByteOrder ==
  << "@context", "@type", "Message", "Title", "activityText", "activityTitle",
     "alert", "attachments", "color", "custom", "description", "details", "embeds",
     "env", "environment", "facts", "fields", "headline", "inline", "message",
     "name", "sections", "service", "short", "summary", "svc", "text",
     "themeColor", "timestamp", "title", "value" >>

Rank(c) == IF \E i \in DOMAIN ByteOrder : ByteOrder[i] = c
           THEN CHOOSE i \in DOMAIN ByteOrder : ByteOrder[i] = c
           ELSE 0

RECURSIVE StrLess(_, _)
\* a < b for Go strings (lexicographic)
StrLess(a, b) ==
  IF a = <<>> THEN b # <<>>
  ELSE IF b = <<>> THEN FALSE
  ELSE IF Head(a) = Head(b) THEN StrLess(Tail(a), Tail(b))
  ELSE Rank(Head(a)) < Rank(Head(b))

RECURSIVE SortedKeys(_)
\* the keys of a map in increasing order
SortedKeys(keys) ==
  IF keys = {} THEN <<>>
  ELSE LET k == CHOOSE x \in keys : \A y \in keys \ {x} : StrLess(x, y)
       IN <<k>> \o SortedKeys(keys \ {k})

(***************************************************************************)
(* Go maps: functions from strings to values.                              *)
(***************************************************************************)
EmptyMap == <<>>

\* m with m[k] = v set
Put(m, k, v) == [x \in (DOMAIN m) \cup {k} |-> IF x = k THEN v ELSE m[x]]

\* for k, v := range src { dst[k] = v }
CopyInto(dst, src) ==
  [x \in (DOMAIN dst) \cup (DOMAIN src) |-> IF x \in DOMAIN src THEN src[x] ELSE dst[x]]

(***************************************************************************)
(* Values of type interface{}: tagged with their dynamic type.             *)
(***************************************************************************)
JStr(s) == [k |-> "string", v |-> s]
JObj(m) == [k |-> "map", v |-> m]
JArr(a) == [k |-> "slice", v |-> a]
JNum(n) == [k |-> "number", v |-> n]
JBool(b) == [k |-> "bool", v |-> b]
JNil == [k |-> "nil", v |-> 0]

\* m[key] of a map[string]interface{}: the nil interface when key is absent
Lookup(m, key) == IF key \in DOMAIN m THEN m[key] ELSE JNil

(***************************************************************************)
(* encoding/json.                                                          *)
(***************************************************************************)
\* the numbers the decoder recognises: one symbol per number
Numbers == (0..(MaxClock + 1)) \cup {16711680}

\* one symbol of a string inside a JSON string literal
EscapeSym(c) ==
  CASE c = Q -> <<BS, Q>>
    [] c = BS -> <<BS, BS>>
    [] c = LF -> <<BS, "n">>
    [] OTHER -> <<c>>

RECURSIVE EscapeStr(_)
EscapeStr(s) == IF s = <<>> THEN <<>> ELSE EscapeSym(Head(s)) \o EscapeStr(Tail(s))

\* json.Marshal of a string
MarshalString(s) == Quoted(EscapeStr(s))

RECURSIVE Marshal(_)
RECURSIVE MarshalMembers(_, _)
RECURSIVE MarshalElements(_)
\* the members of map m for the keys ks, comma separated
MarshalMembers(m, ks) ==
  IF ks = <<>> THEN <<>>
  ELSE MarshalString(Head(ks)) \o <<":">> \o Marshal(m[Head(ks)])
       \o (IF Len(ks) > 1 THEN <<",">> ELSE <<>>)
       \o MarshalMembers(m, Tail(ks))

MarshalElements(a) ==
  IF a = <<>> THEN <<>>
  ELSE Marshal(Head(a)) \o (IF Len(a) > 1 THEN <<",">> ELSE <<>>) \o MarshalElements(Tail(a))

\* json.Marshal of a value: the keys of a map come out sorted
Marshal(x) ==
  CASE x.k = "string" -> MarshalString(x.v)
    [] x.k = "map" -> <<"{">> \o MarshalMembers(x.v, SortedKeys(DOMAIN x.v)) \o <<"}">>
    [] x.k = "slice" -> <<"[">> \o MarshalElements(x.v) \o <<"]">>
    [] x.k = "number" -> <<ToString(x.v)>>
    [] x.k = "bool" -> IF x.v THEN <<"true">> ELSE <<"false">>
    [] OTHER -> <<"null">>

\* a failed parse
NoParse == [ok |-> FALSE, val |-> JNil, rest |-> <<>>]
Parsed(val, rest) == [ok |-> TRUE, val |-> val, rest |-> rest]

IsSpace(c) == c \in {SP, LF, "\t"}

RECURSIVE SkipSpace(_)
SkipSpace(s) == IF s # <<>> /\ IsSpace(Head(s)) THEN SkipSpace(Tail(s)) ELSE s

RECURSIVE ParseChars(_, _)
\* the rest of a string literal whose opening quote is consumed; acc is the
\* text decoded so far.  A raw control character or a bad escape is an error.
ParseChars(s, acc) ==
  IF s = <<>> THEN NoParse
  ELSE IF Head(s) = Q THEN Parsed(JStr(acc), Tail(s))
  ELSE IF Head(s) \in {LF, "\t"} THEN NoParse
  ELSE IF Head(s) = BS
       THEN IF Len(s) < 2 THEN NoParse
            ELSE IF s[2] = Q THEN ParseChars(Drop(s, 2), Append(acc, Q))
            ELSE IF s[2] = BS THEN ParseChars(Drop(s, 2), Append(acc, BS))
            ELSE IF s[2] = "n" THEN ParseChars(Drop(s, 2), Append(acc, LF))
            ELSE IF s[2] = "t" THEN ParseChars(Drop(s, 2), Append(acc, "\t"))
            ELSE NoParse
  ELSE ParseChars(Tail(s), Append(acc, Head(s)))

RECURSIVE ParseValue(_)
RECURSIVE ParseMembers(_, _)
RECURSIVE ParseElements(_, _)
\* the members of an object after "{" or ","; m holds the members read so far
\* (a repeated key keeps its last value)
ParseMembers(s0, m) ==
  LET s == SkipSpace(s0) IN
  IF s = <<>> \/ Head(s) # Q THEN NoParse
  ELSE LET key == ParseChars(Tail(s), <<>>) IN
       IF ~key.ok THEN NoParse
       ELSE LET s1 == SkipSpace(key.rest) IN
            IF s1 = <<>> \/ Head(s1) # ":" THEN NoParse
            ELSE LET val == ParseValue(Tail(s1)) IN
                 IF ~val.ok THEN NoParse
                 ELSE LET s2 == SkipSpace(val.rest)
                          m2 == Put(m, key.val.v, val.val)
                      IN IF s2 = <<>> THEN NoParse
                         ELSE IF Head(s2) = "}" THEN Parsed(JObj(m2), Tail(s2))
                         ELSE IF Head(s2) = "," THEN ParseMembers(Tail(s2), m2)
                         ELSE NoParse

ParseElements(s0, a) ==
  LET val == ParseValue(s0) IN
  IF ~val.ok THEN NoParse
  ELSE LET s2 == SkipSpace(val.rest)
           a2 == Append(a, val.val)
       IN IF s2 = <<>> THEN NoParse
          ELSE IF Head(s2) = "]" THEN Parsed(JArr(a2), Tail(s2))
          ELSE IF Head(s2) = "," THEN ParseElements(Tail(s2), a2)
          ELSE NoParse

\* one JSON value at the front of s
ParseValue(s0) ==
  LET s == SkipSpace(s0) IN
  IF s = <<>> THEN NoParse
  ELSE IF Head(s) = Q THEN ParseChars(Tail(s), <<>>)
  ELSE IF Head(s) = "{"
       THEN LET s1 == SkipSpace(Tail(s)) IN
            IF s1 # <<>> /\ Head(s1) = "}" THEN Parsed(JObj(EmptyMap), Tail(s1))
            ELSE ParseMembers(s1, EmptyMap)
  ELSE IF Head(s) = "["
       THEN LET s1 == SkipSpace(Tail(s)) IN
            IF s1 # <<>> /\ Head(s1) = "]" THEN Parsed(JArr(<<>>), Tail(s1))
            ELSE ParseElements(s1, <<>>)
  ELSE IF Head(s) = "true" THEN Parsed(JBool(TRUE), Tail(s))
  ELSE IF Head(s) = "false" THEN Parsed(JBool(FALSE), Tail(s))
  ELSE IF Head(s) = "null" THEN Parsed(JNil, Tail(s))
  ELSE IF \E n \in Numbers : ToString(n) = Head(s)
       THEN Parsed(JNum(CHOOSE n \in Numbers : ToString(n) = Head(s)), Tail(s))
  ELSE NoParse

\* json.Unmarshal(text, &v) with v an interface{}: [ok, val]; ok is "err == nil".
\* Only white space may follow the value.
Unmarshal(text) ==
  LET r == ParseValue(text) IN
  IF r.ok /\ SkipSpace(r.rest) = <<>> THEN [ok |-> TRUE, val |-> r.val]
  ELSE [ok |-> FALSE, val |-> JNil]

(***************************************************************************)
(* text/template, as far as the webhook templates use it: text, the field  *)
(* action {{.Name}} and the call {{jsonEscape .Name}}.                     *)
(***************************************************************************)
TextNode(s) == [n |-> "text", s |-> s, name |-> <<>>]
FieldNode(name) == [n |-> "field", s |-> <<>>, name |-> name]
CallNode(name) == [n |-> "jsonEscape", s |-> <<>>, name |-> name]

\* what an absent map key prints as
NoValue == <<"<no value>">>

\* the symbols that cannot be part of a field name
Punctuation == {"{{", "}}", ".", SP, LF, Q, BS, "{", "}", ":", ","}

RECURSIVE Trim(_)
\* strings.TrimSpace on both ends of an action's body
Trim(s) ==
  IF s # <<>> /\ Head(s) = SP THEN Trim(Tail(s))
  ELSE IF s # <<>> /\ s[Len(s)] = SP THEN Trim(SubSeq(s, 1, Len(s) - 1))
  ELSE s

\* the node of the action with body b: [ok, node]
ParseAction(b0) ==
  LET b == Trim(b0) IN
  IF Len(b) = 2 /\ b[1] = "." /\ b[2] \notin Punctuation
  THEN [ok |-> TRUE, node |-> FieldNode(<<b[2]>>)]
  ELSE IF Len(b) = 4 /\ b[1] = "jsonEscape" /\ b[2] = SP /\ b[3] = "." /\ b[4] \notin Punctuation
  THEN [ok |-> TRUE, node |-> CallNode(<<b[4]>>)]
  ELSE [ok |-> FALSE, node |-> TextNode(<<>>)]

RECURSIVE ParseNodes(_, _)
\* tmpl.Parse: the nodes of the template text s, appended to nodes; [ok, nodes].
\* An action that is not closed, or whose body is no field and no known
\* function call, is a parse error.
ParseNodes(s, nodes) ==
  IF s = <<>> THEN [ok |-> TRUE, nodes |-> nodes]
  ELSE IF Head(s) = "{{"
  THEN IF ~\E i \in 2..Len(s) : s[i] = "}}" THEN [ok |-> FALSE, nodes |-> <<>>]
       ELSE LET close == CHOOSE i \in 2..Len(s) : s[i] = "}}" /\ \A j \in 2..(i - 1) : s[j] # "}}"
                act == ParseAction(SubSeq(s, 2, close - 1))
            IN IF ~act.ok THEN [ok |-> FALSE, nodes |-> <<>>]
               ELSE ParseNodes(Drop(s, close), Append(nodes, act.node))
  ELSE IF nodes # <<>> /\ nodes[Len(nodes)].n = "text"
  THEN ParseNodes(Tail(s),
         [nodes EXCEPT ![Len(nodes)] = TextNode(Append(nodes[Len(nodes)].s, Head(s)))])
  ELSE ParseNodes(Tail(s), Append(nodes, TextNode(<<Head(s)>>)))

\* template.New("webhook").Funcs(...).Parse(templateStr)
ParseTemplate(templateStr) == ParseNodes(templateStr, <<>>)

\* the jsonEscape template function: json.Marshal(s) without the two quotes
jsonEscape(s) == LET b == MarshalString(s) IN SubSeq(b, 2, Len(b) - 1)

RECURSIVE ExecNodes(_, _, _)
\* tmpl.Execute(&buf, data): [ok, out].  A field of a map prints the value,
\* "<no value>" when the key is absent; jsonEscape of an absent key is an
\* execution error (no string to pass).
ExecNodes(nodes, data, out) ==
  IF nodes = <<>> THEN [ok |-> TRUE, out |-> out]
  ELSE LET nd == Head(nodes)
           val == Lookup(data, nd.name)
       IN IF nd.n = "text" THEN ExecNodes(Tail(nodes), data, out \o nd.s)
          ELSE IF nd.n = "field"
          THEN ExecNodes(Tail(nodes), data, out \o (IF val.k = "string" THEN val.v ELSE NoValue))
          ELSE IF val.k = "string"
          THEN ExecNodes(Tail(nodes), data, out \o jsonEscape(val.v))
          ELSE [ok |-> FALSE, out |-> <<>>]

Execute(nodes, data) == ExecNodes(nodes, data, <<>>)

(***************************************************************************)
(* encoding/base64 (StdEncoding) over the characters credentials are drawn *)
(* from.                                                                   *)
(***************************************************************************)
\* the byte of a one-character symbol
ByteOf(c) ==
  CASE c = "u" -> 117
    [] c = "p" -> 112
    [] c = "1" -> 49
    [] c = ":" -> 58

Base64Alphabet ==
  << "A", "B", "C", "D", "E", "F", "G", "H", "I", "J", "K", "L", "M", "N", "O", "P",
     "Q", "R", "S", "T", "U", "V", "W", "X", "Y", "Z", "a", "b", "c", "d", "e", "f",
     "g", "h", "i", "j", "k", "l", "m", "n", "o", "p", "q", "r", "s", "t", "u", "v",
     "w", "x", "y", "z", "0", "1", "2", "3", "4", "5", "6", "7", "8", "9", "+", "/" >>

Sextet(n) == Base64Alphabet[n + 1]

RECURSIVE EncodeBytes(_)
\* three bytes become four characters; the last group is padded with "="
EncodeBytes(b) ==
  IF Len(b) = 0 THEN <<>>
  ELSE IF Len(b) = 1
  THEN << Sextet(b[1] \div 4), Sextet((b[1] % 4) * 16), "=", "=" >>
  ELSE IF Len(b) = 2
  THEN << Sextet(b[1] \div 4), Sextet((b[1] % 4) * 16 + b[2] \div 16),
          Sextet((b[2] % 16) * 4), "=" >>
  ELSE << Sextet(b[1] \div 4), Sextet((b[1] % 4) * 16 + b[2] \div 16),
          Sextet((b[2] % 16) * 4 + b[3] \div 64), Sextet(b[3] % 64) >>
       \o EncodeBytes(Drop(b, 3))

RECURSIVE StripPadding(_)
StripPadding(s) ==
  IF s # <<>> /\ s[Len(s)] = "=" THEN StripPadding(SubSeq(s, 1, Len(s) - 1)) ELSE s

\* (mutant) base64.RawStdEncoding: no padding
base64EncodeUnpadded(s) == StripPadding(EncodeBytes([i \in DOMAIN s |-> ByteOf(s[i])]))

\* WebhookNotifier.base64Encode
base64Encode(s) == EncodeBytes([i \in DOMAIN s |-> ByteOf(s[i])])

(***************************************************************************)
(* configure.WebhookConfig, as webhook.go reads it.  A nil pointer is the  *)
(* empty sequence, a non-nil pointer the one-element sequence.             *)
(***************************************************************************)
Nil == <<>>
Ptr(x) == <<x>>

\* a CustomPayloadConfig with nothing set
BaseCustomPayload ==
  [Template |-> Empty, ContentType |-> Empty, Fields |-> EmptyMap,
   TitleField |-> Empty, IncludeTitle |-> FALSE,
   MessageField |-> Empty, IncludeMessage |-> FALSE]

ServerURL == <<"http://", "127.0.0.1">>

\* the WebhookConfig of the tests: a URL and nothing else
BaseConfig ==
  [URL |-> ServerURL, Method |-> Empty, Headers |-> EmptyMap,
   AuthType |-> Empty, AuthToken |-> Empty, AuthUsername |-> Empty,
   AuthPassword |-> Empty, AuthHeader |-> Empty,
   Retries |-> 0, Timeout |-> 0, SkipTLSVerify |-> FALSE,
   Template |-> Empty, ContentType |-> Empty, Format |-> Empty,
   CustomPayload |-> Nil]

ApplicationJSON == <<"application/json">>
TextPlain == <<"text/plain">>

(***************************************************************************)
(* Errors: nil, an error made by fmt.Errorf, or a WebhookError.            *)
(***************************************************************************)
NoError == [kind |-> "nil", Message |-> Empty, StatusCode |-> 0, Body |-> Empty,
            Retryable |-> FALSE]
Errorf(msg) == [kind |-> "error", Message |-> msg, StatusCode |-> 0, Body |-> Empty,
                Retryable |-> FALSE]
WebhookError(status, body, retryable) ==
  [kind |-> "WebhookError", Message |-> <<"webhook request failed">>,
   StatusCode |-> status, Body |-> body, Retryable |-> retryable]

\* what a payload builder returns: (interface{}, string, error)
Built(payload, contentType) == [payload |-> payload, contentType |-> contentType, err |-> NoError]
BuildFailed(err) == [payload |-> JNil, contentType |-> Empty, err |-> err]

(***************************************************************************)
(* The payload builders.                                                   *)
(***************************************************************************)
\* time.Time.Format(time.RFC3339) of the clock value t
FormatRFC3339(t) == <<"2025-10-12T10:00:0", ToString(t), "Z">>

\* the data map of buildPayload
BaseData(title, message, now) ==
  (W("title") :> JStr(title)) @@ (W("message") :> JStr(message))
  @@ (W("Title") :> JStr(title)) @@ (W("Message") :> JStr(message))
  @@ (W("timestamp") :> JStr(FormatRFC3339(now))) @@ (W("service") :> JStr(W("ponghub")))

\* buildTemplatePayloadWithData
buildTemplatePayloadWithData(templateStr, data, contentType) ==
  LET tmpl == ParseTemplate(templateStr) IN
  IF ~tmpl.ok THEN BuildFailed(Errorf(<<"failed to parse template: ">>))
  ELSE LET buf == Execute(tmpl.nodes, data) IN
       IF ~buf.ok THEN BuildFailed(Errorf(<<"failed to execute template: ">>))
       ELSE LET jsonData == Unmarshal(buf.out) IN
            IF jsonData.ok
            THEN Built(jsonData.val, IF contentType # Empty THEN contentType ELSE ApplicationJSON)
            ELSE Built(JStr(buf.out), IF contentType # Empty THEN contentType ELSE TextPlain)

\* (mutant) the top-level template honours the configured content type for
\* JSON output as well, as the custom payload's template does
buildTemplatePayloadConfiguredType(cfg, data) ==
  buildTemplatePayloadWithData(cfg.Template, data, cfg.ContentType)

\* buildTemplatePayload
buildTemplatePayload(cfg, data) ==
  LET tmpl == ParseTemplate(cfg.Template) IN
  IF ~tmpl.ok THEN BuildFailed(Errorf(<<"failed to parse template: ">>))
  ELSE LET buf == Execute(tmpl.nodes, data) IN
       IF ~buf.ok THEN BuildFailed(Errorf(<<"failed to execute template: ">>))
       ELSE LET jsonData == Unmarshal(buf.out) IN
            IF jsonData.ok
            THEN Built(jsonData.val, ApplicationJSON)
            ELSE Built(JStr(buf.out), IF cfg.ContentType # Empty THEN cfg.ContentType ELSE TextPlain)

\* the keys the loop of buildCustomPayload never copies
ReservedKeys ==
  {W("Title"), W("Message"), W("title"), W("message"), W("timestamp"), W("service"),
   W("environment")}

\* (mutant) the Fields are copied first and the data over them: a base key
\* wins over a Fields key of the same name
EnhancedDataBaseWins(customPayload, data) ==
  LET withFields == CopyInto([key \in DOMAIN customPayload.Fields |->
                                JStr(customPayload.Fields[key])], data)
      withTitle == IF customPayload.TitleField # Empty /\ customPayload.IncludeTitle
                   THEN Put(withFields, customPayload.TitleField, data[W("title")])
                   ELSE withFields
  IN IF customPayload.MessageField # Empty /\ customPayload.IncludeMessage
     THEN Put(withTitle, customPayload.MessageField, data[W("message")])
     ELSE withTitle

\* enhancedData of buildCustomPayload: the data, the Fields, then the field
\* name mappings
EnhancedData(customPayload, data) ==
  LET withFields == CopyInto(data, [key \in DOMAIN customPayload.Fields |->
                                      JStr(customPayload.Fields[key])])
      withTitle == IF customPayload.TitleField # Empty /\ customPayload.IncludeTitle
                   THEN Put(withFields, customPayload.TitleField, data[W("title")])
                   ELSE withFields
  IN IF customPayload.MessageField # Empty /\ customPayload.IncludeMessage
     THEN Put(withTitle, customPayload.MessageField, data[W("message")])
     ELSE withTitle

\* the structured result of buildCustomPayload for a template that names
\* "alert" and "details"
StructuredResult(template, enhancedData) ==
  LET base == (W("alert") :> Lookup(enhancedData, W("Title")))
              @@ (W("details") :> Lookup(enhancedData, W("Message")))
      withEnv == IF Contains(template, Quoted(W("env")))
                 THEN Put(base, W("env"), Lookup(enhancedData, W("environment")))
                 ELSE base
      withSvc == IF Contains(template, Quoted(W("svc")))
                 THEN Put(withEnv, W("svc"), Lookup(enhancedData, W("service")))
                 ELSE withEnv
      others == {key \in (DOMAIN enhancedData) \ ReservedKeys :
                   Contains(template, Quoted(key))}
  IN CopyInto(withSvc, [key \in others |-> enhancedData[key]])

\* (mutant) every custom template goes through the template engine: no
\* structured result for "alert"/"details" templates
buildCustomPayloadRendered(cfg, data) ==
  LET customPayload == cfg.CustomPayload[1]
      enhancedData == EnhancedData(customPayload, data)
      contentType == IF customPayload.ContentType # Empty
                     THEN customPayload.ContentType ELSE ApplicationJSON
  IN IF customPayload.Template # Empty
     THEN buildTemplatePayloadWithData(customPayload.Template, enhancedData,
                                       customPayload.ContentType)
     ELSE Built(JObj(enhancedData), contentType)

\* buildCustomPayload
buildCustomPayload(cfg, data) ==
  LET customPayload == cfg.CustomPayload[1]
      enhancedData == EnhancedData(customPayload, data)
      contentType == IF customPayload.ContentType # Empty
                     THEN customPayload.ContentType ELSE ApplicationJSON
  IN IF customPayload.Template # Empty
     THEN IF Contains(customPayload.Template, Quoted(W("alert")))
             /\ Contains(customPayload.Template, Quoted(W("details")))
          THEN Built(JObj(StructuredResult(customPayload.Template, enhancedData)), contentType)
          ELSE buildTemplatePayloadWithData(customPayload.Template, enhancedData,
                                            customPayload.ContentType)
     ELSE Built(JObj(enhancedData), contentType)

\* buildSlackFormat; unix is time.Now().Unix()
buildSlackFormat(data, unix) ==
  JObj((W("text") :> JStr(<<"*">> \o data[W("title")].v \o <<"*">>))
    @@ (W("attachments") :> JArr(<<
         JObj((W("color") :> JStr(W("danger")))
           @@ (W("text") :> data[W("message")])
           @@ (W("timestamp") :> JNum(unix))
           @@ (W("fields") :> JArr(<<
                JObj((W("title") :> JStr(W("Service")))
                  @@ (W("value") :> data[W("service")])
                  @@ (W("short") :> JBool(TRUE))) >>))) >>)))

\* buildDiscordFormat
buildDiscordFormat(data) ==
  JObj(W("embeds") :> JArr(<<
    JObj((W("title") :> data[W("title")])
      @@ (W("description") :> data[W("message")])
      @@ (W("color") :> JNum(16711680))
      @@ (W("timestamp") :> data[W("timestamp")])
      @@ (W("fields") :> JArr(<<
           JObj((W("name") :> JStr(W("Service")))
             @@ (W("value") :> data[W("service")])
             @@ (W("inline") :> JBool(TRUE))) >>))) >>))

\* buildTeamsFormat
buildTeamsFormat(data) ==
  JObj((W("@type") :> JStr(W("MessageCard")))
    @@ (W("@context") :> JStr(W("http://schema.org/extensions")))
    @@ (W("themeColor") :> JStr(W("FF0000")))
    @@ (W("summary") :> data[W("title")])
    @@ (W("sections") :> JArr(<<
         JObj((W("activityTitle") :> data[W("title")])
           @@ (W("activityText") :> data[W("message")])
           @@ (W("facts") :> JArr(<<
                JObj((W("name") :> JStr(W("Service"))) @@ (W("value") :> data[W("service")])),
                JObj((W("name") :> JStr(W("Timestamp"))) @@ (W("value") :> data[W("timestamp")]))
              >>))) >>)))

\* buildMattermostFormat
buildMattermostFormat(data) ==
  JObj(W("text") :> JStr(<<"## ">> \o data[W("title")].v \o <<LF, LF>>
                         \o data[W("message")].v \o <<LF, LF, "**Service:** ">>
                         \o data[W("service")].v \o <<LF, "**Time:** ">>
                         \o data[W("timestamp")].v))

\* (mutant) the format name is compared as it is written, not lowered
buildFormattedPayloadCaseSensitive(cfg, data, unix) ==
  LET format == cfg.Format IN
  IF format = W("slack") THEN Built(buildSlackFormat(data, unix), ApplicationJSON)
  ELSE IF format = W("discord") THEN Built(buildDiscordFormat(data), ApplicationJSON)
  ELSE IF format = W("teams") THEN Built(buildTeamsFormat(data), ApplicationJSON)
  ELSE IF format = W("mattermost") THEN Built(buildMattermostFormat(data), ApplicationJSON)
  ELSE Built(JObj(data), ApplicationJSON)

\* buildFormattedPayload
buildFormattedPayload(cfg, data, unix) ==
  LET format == ToLower(cfg.Format) IN
  IF format = W("slack") THEN Built(buildSlackFormat(data, unix), ApplicationJSON)
  ELSE IF format = W("discord") THEN Built(buildDiscordFormat(data), ApplicationJSON)
  ELSE IF format = W("teams") THEN Built(buildTeamsFormat(data), ApplicationJSON)
  ELSE IF format = W("mattermost") THEN Built(buildMattermostFormat(data), ApplicationJSON)
  ELSE Built(JObj(data), ApplicationJSON)

\* (mutant) the top-level template is looked at before the custom payload
buildPayloadTemplateFirst(cfg, title, message, now, unix) ==
  LET data == BaseData(title, message, now) IN
  IF cfg.Template # Empty THEN buildTemplatePayload(cfg, data)
  ELSE IF cfg.CustomPayload # Nil THEN buildCustomPayload(cfg, data)
  ELSE IF cfg.Format # Empty THEN buildFormattedPayload(cfg, data, unix)
  ELSE Built(JObj(data), ApplicationJSON)

\* buildPayload; now and unix are the two readings of time.Now()
buildPayload(cfg, title, message, now, unix) ==
  LET data == BaseData(title, message, now) IN
  IF cfg.CustomPayload # Nil THEN buildCustomPayload(cfg, data)
  ELSE IF cfg.Template # Empty THEN buildTemplatePayload(cfg, data)
  ELSE IF cfg.Format # Empty THEN buildFormattedPayload(cfg, data, unix)
  ELSE Built(JObj(data), ApplicationJSON)

(***************************************************************************)
(* Authentication and the request.                                         *)
(***************************************************************************)
\* (mutant) the scheme in lower case
BearerValueLowerCase(token) == <<"bearer", SP>> \o token

\* setAuthentication: "Bearer " + w.config.AuthToken
BearerValue(token) == <<"Bearer", SP>> \o token

\* (mutant) the header is written whether or not the credentials are there
setAuthenticationUnchecked(cfg, headers) ==
  LET authType == ToLower(cfg.AuthType) IN
  IF authType = W("bearer")
  THEN Put(headers, W("Authorization"), BearerValue(cfg.AuthToken))
  ELSE IF authType = W("basic")
  THEN Put(headers, W("Authorization"),
           <<"Basic", SP>> \o base64Encode(cfg.AuthUsername \o <<":">> \o cfg.AuthPassword))
  ELSE IF authType = W("apikey")
  THEN IF cfg.AuthHeader # Empty
       THEN Put(headers, cfg.AuthHeader, cfg.AuthToken)
       ELSE Put(headers, W("X-API-Key"), cfg.AuthToken)
  ELSE headers

\* setAuthentication: the headers map after the call
setAuthentication(cfg, headers) ==
  LET authType == ToLower(cfg.AuthType) IN
  IF authType = W("bearer")
  THEN IF cfg.AuthToken # Empty
       THEN Put(headers, W("Authorization"), BearerValue(cfg.AuthToken))
       ELSE headers
  ELSE IF authType = W("basic")
  THEN IF cfg.AuthUsername # Empty /\ cfg.AuthPassword # Empty
       THEN Put(headers, W("Authorization"),
                <<"Basic", SP>> \o base64Encode(cfg.AuthUsername \o <<":">> \o cfg.AuthPassword))
       ELSE headers
  ELSE IF authType = W("apikey")
  THEN IF cfg.AuthToken # Empty
       THEN IF cfg.AuthHeader # Empty
            THEN Put(headers, cfg.AuthHeader, cfg.AuthToken)
            ELSE Put(headers, W("X-API-Key"), cfg.AuthToken)
       ELSE headers
  ELSE headers

\* Send, "Determine method"
Method(cfg) == IF cfg.Method # Empty THEN ToUpper(cfg.Method) ELSE W("POST")

\* Send, "Prepare headers" and "Set authentication if configured": a fresh
\* map with the configured headers copied in, then the authentication header
RequestHeaders(cfg) ==
  LET headers == CopyInto(EmptyMap, cfg.Headers) IN
  IF cfg.AuthType # Empty THEN setAuthentication(cfg, headers) ELSE headers

\* (mutant) one retry fewer than configured
MaxRetriesOneLess(cfg) == IF cfg.Retries > 0 THEN cfg.Retries - 1 ELSE 0

\* (mutant) the retry count taken for the number of retries after the first
MaxRetriesOneMore(cfg) == IF cfg.Retries > 0 THEN cfg.Retries + 1 ELSE 1

\* sendWithRetry: maxRetries
MaxRetriesOf(cfg) == IF cfg.Retries > 0 THEN cfg.Retries ELSE 0

\* sendWithRetry: timeout in seconds
DefaultTimeout == 30
TimeoutOf(cfg) == IF cfg.Timeout > 0 THEN cfg.Timeout ELSE DefaultTimeout

\* sendWithRetry, "Handle different payload types": the io.Reader handed on.
\* A nil payload gives a nil reader; a string is sent as it is; anything else
\* is marshalled.
NoBody == [present |-> FALSE, data |-> Empty]
BodyOf(payload) ==
  IF payload.k = "nil" THEN NoBody
  ELSE IF payload.k = "string" THEN [present |-> TRUE, data |-> payload.v]
  ELSE [present |-> TRUE, data |-> Marshal(payload)]

(***************************************************************************)
(* sendHTTPRequestWithCustomBody is not among the sources; it is modelled  *)
(* from the specification: one request per attempt, 2xx is success, any    *)
(* other response is retried while attempts remain, and the last response  *)
(* becomes a WebhookError.                                                 *)
(***************************************************************************)
Is2xx(status) == status >= 200 /\ status < 300

\* the failure class that is worth retrying
IsRetryable(status) == status >= 500

\* the request of one attempt
Request(l) ==
  [method |-> l.method, url |-> l.url, body |-> l.body, contentType |-> l.contentType,
   headers |-> l.headers, timeout |-> l.timeout]

\* whether the loop ends after the response to attempt number attempt (from 0)
LastAttempt(attempt, maxRetries, status) == Is2xx(status) \/ attempt >= maxRetries

\* what the loop returns when it ends on this response
Outcome(status, body) ==
  IF Is2xx(status) THEN NoError ELSE WebhookError(status, body, IsRetryable(status))

\* (mutant) the reader is read again on every attempt: it is at its end after
\* the first
AttemptBodyDrained(body, attempt) == IF attempt = 0 THEN body ELSE [body EXCEPT !.data = Empty]

\* the body one attempt transmits: the reader's content, buffered once and
\* replayed on every attempt
AttemptBody(body, attempt) == body

(***************************************************************************)
(* State.                                                                  *)
(***************************************************************************)
VARIABLES
  config,        \* the WebhookConfig the notifier was created with
  env,           \* the value of the environment variable WEBHOOK_URL
  server,        \* how the receiving server answers: "ok" or "any"
  clock,         \* the last reading of time.Now()
  pc,            \* pc[c]: where call c of Send stands
  args,          \* args[c]: the title and the message of call c
  local,         \* local[c]: the local variables of call c
  sent,          \* sent[c]: the requests call c has transmitted
  replies,       \* replies[c]: the responses call c has received
  result,        \* result[c]: the error call c returned
  requestCount   \* the number of requests the server has received

vars == <<config, env, server, clock, pc, args, local, sent, replies, result, requestCount>>

\* the calls of Send in this run
Calls == DOMAIN pc

\* the locals of a call that has not started
NoLocals ==
  [url |-> Empty, payload |-> JNil, contentType |-> Empty, method |-> Empty,
   headers |-> EmptyMap, body |-> NoBody, maxRetries |-> 0, timeout |-> 0,
   attempt |-> 0]

\* the status codes the server answers with
SuccessStatuses == {200, 204}
FailureStatuses == {404, 500, 503}

\* the bodies of the server's error responses
ErrorBodies == {Empty, <<"Internal", SP, "Server", SP, "Error">>}

\* the answers the server may give
Responses(kind) ==
  {[status |-> st, body |-> <<"OK">>] : st \in SuccessStatuses}
  \cup (IF kind = "ok" THEN {}
        ELSE {[status |-> st, body |-> b] : st \in FailureStatuses, b \in ErrorBodies})

\* a run: the notifier's configuration, the environment, the server and the
\* arguments of every call
InitWith(Configs, Envs, Kinds, Ids, Titles, Messages) ==
  /\ config \in Configs
  /\ env \in Envs
  /\ server \in Kinds
  /\ clock = 0
  /\ pc = [c \in Ids |-> "start"]
  /\ args \in [Ids -> [title : Titles, message : Messages]]
  /\ local = [c \in Ids |-> NoLocals]
  /\ sent = [c \in Ids |-> <<>>]
  /\ replies = [c \in Ids |-> <<>>]
  /\ result = [c \in Ids |-> NoError]
  /\ requestCount = 0

(***************************************************************************)
(* Send.                                                                   *)
(***************************************************************************)
\* (mutant) the environment value is looked at first and the configured URL
\* only when it is empty
BeginEnvironmentFirst(c) ==
  /\ pc[c] = "start"
  /\ \E now \in clock..MaxClock :
       \E unix \in (IF ToLower(config.Format) = W("slack") THEN now..(now + 1) ELSE {now}) :
         LET url == IF env # Empty THEN env ELSE config.URL
             built == buildPayload(config, args[c].title, args[c].message, now, unix)
         IN /\ clock' = now
            /\ IF url = Empty
               THEN /\ result' = [result EXCEPT ![c] = Errorf(<<"webhook URL not configured">>)]
                    /\ pc' = [pc EXCEPT ![c] = "done"]
                    /\ local' = local
               ELSE IF built.err # NoError
               THEN /\ result' = [result EXCEPT ![c] =
                         Errorf(<<"failed to build webhook payload: ">> \o built.err.Message)]
                    /\ pc' = [pc EXCEPT ![c] = "done"]
                    /\ local' = [local EXCEPT ![c].url = url]
               ELSE /\ result' = result
                    /\ pc' = [pc EXCEPT ![c] = "built"]
                    /\ local' = [local EXCEPT ![c].url = url,
                                              ![c].payload = built.payload,
                                              ![c].contentType = built.contentType]
  /\ UNCHANGED <<config, env, server, args, sent, replies, requestCount>>

\* Send up to the payload: the URL is resolved and the payload built; either
\* failure returns at once
Begin(c) ==
  /\ pc[c] = "start"
  /\ \E now \in clock..MaxClock :
       \E unix \in (IF ToLower(config.Format) = W("slack") THEN now..(now + 1) ELSE {now}) :
         LET url == IF config.URL = Empty THEN env ELSE config.URL
             built == buildPayload(config, args[c].title, args[c].message, now, unix)
         IN /\ clock' = now
            /\ IF url = Empty
               THEN /\ result' = [result EXCEPT ![c] = Errorf(<<"webhook URL not configured">>)]
                    /\ pc' = [pc EXCEPT ![c] = "done"]
                    /\ local' = local
               ELSE IF built.err # NoError
               THEN /\ result' = [result EXCEPT ![c] =
                         Errorf(<<"failed to build webhook payload: ">> \o built.err.Message)]
                    /\ pc' = [pc EXCEPT ![c] = "done"]
                    /\ local' = [local EXCEPT ![c].url = url]
               ELSE /\ result' = result
                    /\ pc' = [pc EXCEPT ![c] = "built"]
                    /\ local' = [local EXCEPT ![c].url = url,
                                              ![c].payload = built.payload,
                                              ![c].contentType = built.contentType]
  /\ UNCHANGED <<config, env, server, args, sent, replies, requestCount>>

\* (mutant) the payload is kept in one place shared by the calls in flight:
\* the body is made from the payload of the last call that built one
PrepareSharedPayload(c) ==
  /\ pc[c] = "built"
  /\ LET last == CHOOSE d \in Calls : pc[d] = "built" /\ \A e \in Calls : pc[e] = "built" => e <= d
     IN local' = [local EXCEPT ![c].method = Method(config),
                               ![c].headers = RequestHeaders(config),
                               ![c].maxRetries = MaxRetriesOf(config),
                               ![c].timeout = TimeoutOf(config),
                               ![c].body = BodyOf(local[last].payload)]
  /\ pc' = [pc EXCEPT ![c] = "sending"]
  /\ UNCHANGED <<config, env, server, clock, args, sent, replies, result, requestCount>>

\* (mutant) headers is the configured map itself, not a copy: what
\* setAuthentication writes lands in the configuration
PrepareAliasedHeaders(c) ==
  /\ pc[c] = "built"
  /\ local' = [local EXCEPT ![c].method = Method(config),
                            ![c].headers = RequestHeaders(config),
                            ![c].maxRetries = MaxRetriesOf(config),
                            ![c].timeout = TimeoutOf(config),
                            ![c].body = BodyOf(local[c].payload)]
  /\ config' = [config EXCEPT !.Headers = RequestHeaders(config)]
  /\ pc' = [pc EXCEPT ![c] = "sending"]
  /\ UNCHANGED <<env, server, clock, args, sent, replies, result, requestCount>>

\* Send from the method to the call of sendHTTPRequestWithCustomBody: method,
\* headers, authentication, and sendWithRetry's retry count, timeout and body
Prepare(c) ==
  /\ pc[c] = "built"
  /\ local' = [local EXCEPT ![c].method = Method(config),
                            ![c].headers = RequestHeaders(config),
                            ![c].maxRetries = MaxRetriesOf(config),
                            ![c].timeout = TimeoutOf(config),
                            ![c].body = BodyOf(local[c].payload)]
  /\ pc' = [pc EXCEPT ![c] = "sending"]
  /\ UNCHANGED <<config, env, server, clock, args, sent, replies, result, requestCount>>

\* one attempt of sendHTTPRequestWithCustomBody: the request goes out, the
\* server answers, and the loop ends or goes on
Attempt(c) ==
  /\ pc[c] = "sending"
  /\ \E resp \in Responses(server) :
       LET l == local[c]
           req == Request([l EXCEPT !.body = AttemptBody(l.body, l.attempt)])
       IN /\ sent' = [sent EXCEPT ![c] = Append(@, req)]
          /\ replies' = [replies EXCEPT ![c] = Append(@, resp)]
          /\ requestCount' = requestCount + 1
          /\ IF LastAttempt(l.attempt, l.maxRetries, resp.status)
             THEN /\ result' = [result EXCEPT ![c] = Outcome(resp.status, resp.body)]
                  /\ pc' = [pc EXCEPT ![c] = "done"]
                  /\ local' = local
             ELSE /\ result' = result
                  /\ pc' = pc
                  /\ local' = [local EXCEPT ![c].attempt = @ + 1]
  /\ UNCHANGED <<config, env, server, clock, args>>

Next ==
  \/ \E c \in Calls : Begin(c)
  \/ \E c \in Calls : Prepare(c)
  \/ \E c \in Calls : Attempt(c)

(***************************************************************************)
(* Specifications.  Each draws the configurations and arguments of one     *)
(* group of properties.                                                    *)
(***************************************************************************)
\* the symbols titles and messages are made of: a non-ASCII letter, a quote,
\* a newline and a backslash
TextAlphabet == {"é", Q, LF, BS}
Titles == SeqsUpTo(TextAlphabet, MaxTitleLen)
Messages == SeqsUpTo(TextAlphabet, MaxMessageLen)

\* the arguments of the tests
TestTitle == <<"Test", SP, "Alert">>
TestMessage == <<"Test", SP, "message">>

\* retries: every retry count from a negative one up, with and without a
\* timeout, against a server that may answer anything
PlainTextTemplate == <<"ALERT", ":", SP, "{{", ".", "Title", "}}">>
RetryConfigs ==
  {[b EXCEPT !.Retries = r] :
     r \in (-1)..MaxRetries,
     b \in {BaseConfig,
            [BaseConfig EXCEPT !.Timeout = 5],
            [BaseConfig EXCEPT !.Template = PlainTextTemplate,
                               !.Headers = W("X-Source") :> W("ponghub"),
                               !.AuthType = W("bearer"),
                               !.AuthToken = W("test-token-123")]}}

Init == InitWith(RetryConfigs, {Empty}, {"any"}, {1}, {TestTitle}, {TestMessage})

Spec == Init /\ [][Next]_vars

(***************************************************************************)
(* Properties of the retry loop (Spec).                                    *)
(***************************************************************************)
\* the retry count in effect: a configured count below zero counts as zero
EffectiveRetries == IF config.Retries > 0 THEN config.Retries ELSE 0

\* the number of answers in rs that are not 2xx
RECURSIVE Failures(_)
Failures(rs) ==
  IF rs = <<>> THEN 0
  ELSE (IF Is2xx(Head(rs).status) THEN 0 ELSE 1) + Failures(Tail(rs))

\* the server has answered non-2xx k times and then 2xx
FailedThenSucceeded(c, k) ==
  /\ Len(replies[c]) = k + 1
  /\ \A i \in 1..k : ~Is2xx(replies[c][i].status)
  /\ Is2xx(replies[c][k + 1].status)

\* C2: with retry count R, Send never makes more than R+1 attempts, makes no
\* attempt after a 2xx answer, goes on while an answer is not 2xx and attempts
\* remain, and when the server answers non-2xx k times (k <= R) and then 2xx
\* it returns nil after exactly k+1 requests.
RetriesStopAtFirstSuccess ==
  \A c \in Calls :
    /\ Len(sent[c]) <= EffectiveRetries + 1
    /\ Len(sent[c]) = Len(replies[c])
    /\ requestCount = Len(sent[c])
    /\ \A i \in 1..(Len(replies[c]) - 1) : ~Is2xx(replies[c][i].status)
    /\ (pc[c] = "sending" => Len(sent[c]) <= EffectiveRetries)
    /\ (pc[c] = "done" /\ replies[c] # <<>> /\ Failures(replies[c]) <= EffectiveRetries
          => Is2xx(replies[c][Len(replies[c])].status))
    /\ \A k \in 0..EffectiveRetries :
         FailedThenSucceeded(c, k)
           => pc[c] = "done" /\ result[c] = NoError /\ requestCount = k + 1

\* the test's run: 503, 503, 200 gives nil after exactly 3 requests
RetriedTwiceThenSucceeded ==
  /\ FailedThenSucceeded(1, 2)
  /\ replies[1][1].status = 503 /\ replies[1][2].status = 503
  /\ pc[1] = "done" /\ result[1] = NoError /\ requestCount = 3

\* C3: when every attempt is answered non-2xx, Send returns a WebhookError
\* once the retries are used up; the error carries the last status code, the
\* last response body as it came, and whether the status is of the retryable
\* class; with Retries <= 0 the server has received exactly one request.
ExhaustedRetriesReturnWebhookError ==
  \A c \in Calls :
    (pc[c] = "done" /\ replies[c] # <<>> /\ Failures(replies[c]) = Len(replies[c]))
      => LET last == replies[c][Len(replies[c])] IN
         /\ result[c].kind = "WebhookError"
         /\ result[c].StatusCode = last.status
         /\ result[c].Body = last.body
         /\ result[c].Retryable = (last.status >= 500)
         /\ Len(sent[c]) = EffectiveRetries + 1
         /\ (config.Retries <= 0 => requestCount = 1)

\* a negative retry count, one request answered 500 with a body, and the
\* error returned
FailedWithoutRetry ==
  /\ config.Retries < 0
  /\ pc[1] = "done" /\ requestCount = 1
  /\ result[1].kind = "WebhookError" /\ result[1].StatusCode = 500
  /\ result[1].Body # Empty /\ result[1].Retryable

\* retries used up on a status outside the retryable class
FailedAfterRetries ==
  /\ config.Retries = MaxRetries
  /\ pc[1] = "done" /\ requestCount = MaxRetries + 1
  /\ result[1].kind = "WebhookError" /\ result[1].StatusCode = 404
  /\ ~result[1].Retryable

\* C4: within one call of Send every attempt transmits the same method, URL,
\* body, content type and headers, and the body is the payload serialized as
\* it was built: never empty, never cut short.
AttemptsTransmitTheSameRequest ==
  \A c \in Calls :
    \A i \in 1..Len(sent[c]) :
      /\ sent[c][i] = sent[c][1]
      /\ sent[c][i].contentType = local[c].contentType
      /\ sent[c][i].headers = local[c].headers
      /\ sent[c][i].body.present
      /\ sent[c][i].body.data # Empty
      /\ sent[c][i].body.data =
           (IF local[c].payload.k = "string" THEN local[c].payload.v
            ELSE Marshal(local[c].payload))

\* a third attempt has gone out, with a body and an authentication header
ThirdAttemptSent ==
  /\ Len(sent[1]) = 3
  /\ sent[1][3].body.data # Empty
  /\ W("Authorization") \in DOMAIN sent[1][3].headers

(***************************************************************************)
(* Precedence of the payload builders (SpecPrecedence).                    *)
(***************************************************************************)
\* {"text": "{{.Title}}"}
JSONTemplate ==
  <<"{", Q, "text", Q, ":", SP, Q, "{{", ".", "Title", "}}", Q, "}">>

\* a template that does not parse: the action is never closed
BrokenTemplate == <<"{{", ".", "Title">>

\* {"summary": "{{.Message}}", "env": "{{.environment}}"}
CustomTemplate ==
  <<"{", Q, "summary", Q, ":", SP, Q, "{{", ".", "Message", "}}", Q, ",", SP,
    Q, "env", Q, ":", SP, Q, "{{", ".", "environment", "}}", Q, "}">>

PrecedenceCustomPayloads ==
  {Nil,
   Ptr([BaseCustomPayload EXCEPT !.Fields = W("environment") :> W("production")]),
   Ptr([BaseCustomPayload EXCEPT !.Template = CustomTemplate,
                                 !.Fields = W("environment") :> W("production")])}

PrecedenceConfigs ==
  {[BaseConfig EXCEPT !.CustomPayload = cp, !.Template = t, !.Format = f, !.ContentType = ct] :
     cp \in PrecedenceCustomPayloads,
     t \in {Empty, JSONTemplate, PlainTextTemplate, BrokenTemplate},
     f \in {Empty, W("slack"), W("unknown")},
     ct \in {Empty, W("text/markdown")}}

InitPrecedence ==
  InitWith(PrecedenceConfigs, {Empty}, {"ok"}, {1}, {W("é"), <<Q>>}, {TestMessage})

SpecPrecedence == InitPrecedence /\ [][Next]_vars

\* what call c got from buildPayload, as far as the state keeps it
BuildResultIs(c, built) ==
  IF built.err # NoError
  THEN /\ pc[c] = "done"
       /\ result[c] = Errorf(<<"failed to build webhook payload: ">> \o built.err.Message)
  ELSE /\ result[c] = NoError
       /\ local[c].payload = built.payload
       /\ local[c].contentType = built.contentType

\* the one builder the precedence selects for cfg, applied
SelectedBuilder(cfg, title, message, now, unix) ==
  LET data == BaseData(title, message, now) IN
  CASE cfg.CustomPayload # Nil -> buildCustomPayload(cfg, data)
    [] cfg.CustomPayload = Nil /\ cfg.Template # Empty -> buildTemplatePayload(cfg, data)
    [] cfg.CustomPayload = Nil /\ cfg.Template = Empty /\ cfg.Format # Empty ->
         buildFormattedPayload(cfg, data, unix)
    [] OTHER -> Built(JObj(data), ApplicationJSON)

\* cfg with every setting of lower precedence than the one in force removed
WithoutLowerPrecedence(cfg) ==
  IF cfg.CustomPayload # Nil THEN [cfg EXCEPT !.Template = Empty, !.Format = Empty]
  ELSE IF cfg.Template # Empty THEN [cfg EXCEPT !.Format = Empty]
  ELSE cfg

\* the readings of the clock a call may have made
ClockReadings == {<<now, unix>> \in (0..MaxClock) \X (0..(MaxClock + 1)) : unix \in now..(now + 1)}

\* C1: the payload comes from exactly one builder, chosen by precedence:
\* the custom payload when CustomPayload is set, else the template when
\* Template is not empty, else the preset when Format is not empty, else the
\* default object; and it is the payload the same configuration gives with
\* every lower-precedence setting removed.
PayloadBuilderPrecedence ==
  \A c \in Calls :
    pc[c] # "start" =>
      \E t \in ClockReadings :
        /\ BuildResultIs(c, SelectedBuilder(config, args[c].title, args[c].message, t[1], t[2]))
        /\ BuildResultIs(c, buildPayload(WithoutLowerPrecedence(config),
                                         args[c].title, args[c].message, t[1], t[2]))

\* a custom payload, a template and a format are all set, and the payload
\* built is the custom one, which differs from what the template would give
CustomPayloadWonOverTemplate ==
  /\ config.CustomPayload # Nil /\ config.Template = JSONTemplate /\ config.Format # Empty
  /\ pc[1] = "built"
  /\ W("environment") \in DOMAIN local[1].payload.v
  /\ local[1].payload #
       buildTemplatePayload(config, BaseData(args[1].title, args[1].message, clock)).payload

(***************************************************************************)
(* Custom payloads (SpecCustom).                                           *)
(***************************************************************************)
\* {"alert":"{{.Title}}","details":"{{.Message}}"}
AlertTemplate ==
  <<"{", Q, "alert", Q, ":", Q, "{{", ".", "Title", "}}", Q, ",",
    Q, "details", Q, ":", Q, "{{", ".", "Message", "}}", Q, "}">>

\* the same with a space after each colon and comma, as the tests write it
AlertTemplateSpaced ==
  <<"{", Q, "alert", Q, ":", SP, Q, "{{", ".", "Title", "}}", Q, ",", SP,
    Q, "details", Q, ":", SP, Q, "{{", ".", "Message", "}}", Q, "}">>

\* {"alert": "{{.Title}}", "details": "{{.Message}}", "env": "{{.environment}}"}
AlertEnvTemplate ==
  <<"{", Q, "alert", Q, ":", SP, Q, "{{", ".", "Title", "}}", Q, ",", SP,
    Q, "details", Q, ":", SP, Q, "{{", ".", "Message", "}}", Q, ",", SP,
    Q, "env", Q, ":", SP, Q, "{{", ".", "environment", "}}", Q, "}">>

\* the values of the environment field
EnvironmentValues == {W("production"), <<"a", Q, "b">>}

\* the Fields maps drawn
FieldMaps ==
  {EmptyMap}
  \cup {W("environment") :> v : v \in EnvironmentValues}
  \cup {(W("environment") :> W("production")) @@ (W("title") :> W("overridden"))}

\* the field-name mappings drawn: TitleField, IncludeTitle
TitleMappings ==
  {<<Empty, FALSE>>, <<W("headline"), TRUE>>, <<W("headline"), FALSE>>,
   <<W("environment"), TRUE>>, <<W("env"), TRUE>>}

\* the custom payloads drawn: the alert templates alone, the alert/env template
\* and no template with every Fields map and mapping
CustomPayloads ==
  {[BaseCustomPayload EXCEPT !.Template = t, !.ContentType = ct] :
     t \in {AlertTemplate, AlertTemplateSpaced}, ct \in {Empty, ApplicationJSON}}
  \cup {[BaseCustomPayload EXCEPT !.Template = t, !.Fields = f,
                                  !.TitleField = tm[1], !.IncludeTitle = tm[2]] :
          t \in {AlertEnvTemplate, Empty}, f \in FieldMaps, tm \in TitleMappings}
  \cup {[BaseCustomPayload EXCEPT !.Fields = W("environment") :> W("production"),
                                  !.MessageField = W("environment"),
                                  !.IncludeMessage = TRUE]}

CustomConfigs == {[BaseConfig EXCEPT !.CustomPayload = Ptr(cp)] : cp \in CustomPayloads}

InitCustom == InitWith(CustomConfigs, {Empty}, {"ok"}, {1}, Titles, Messages)

SpecCustom == InitCustom /\ [][Next]_vars

\* what the receiving server decodes from the body of the i-th request of
\* call c: json.Unmarshal(body, &receivedPayload)
Received(c, i) == Unmarshal(sent[c][i].body.data)

\* the custom payload of the configuration
TheCustomPayload == config.CustomPayload[1]

\* no field-name mapping is in force
NoFieldMapping ==
  /\ ~(TheCustomPayload.TitleField # Empty /\ TheCustomPayload.IncludeTitle)
  /\ ~(TheCustomPayload.MessageField # Empty /\ TheCustomPayload.IncludeMessage)

\* C6: the custom payload whose only setting (content type aside) is the template
\* {"alert":"{{.Title}}","details":"{{.Message}}"} gives, for every title
\* and message, a body that decodes to the object with exactly the keys alert
\* and details, alert the title and details the message.
AlertTemplateGivesAlertAndDetails ==
  \A c \in Calls :
    (/\ config.CustomPayload # Nil
     /\ TheCustomPayload.Template \in {AlertTemplate, AlertTemplateSpaced}
     /\ TheCustomPayload.Fields = EmptyMap
     /\ NoFieldMapping)
    => /\ pc[c] = "done" => result[c] = NoError
       /\ \A i \in 1..Len(sent[c]) :
            /\ Received(c, i).ok
            /\ Received(c, i).val =
                 JObj((W("alert") :> JStr(args[c].title))
                      @@ (W("details") :> JStr(args[c].message)))

\* the template of the specification, sent with a quote for the title and a
\* newline for the message
AlertSentWithQuoteAndNewline ==
  /\ config.CustomPayload # Nil
  /\ TheCustomPayload.Template = AlertTemplate
  /\ args[1].title = <<Q>> /\ args[1].message = <<LF>>
  /\ pc[1] = "done" /\ Len(sent[1]) = 1
  /\ Received(1, 1).val.v[W("alert")] = JStr(<<Q>>)
  /\ Received(1, 1).val.v[W("details")] = JStr(<<LF>>)

\* the object the receiving server decodes, as a map; the empty map when the
\* body is no JSON object
ReceivedObject(c, i) ==
  IF Received(c, i).ok /\ Received(c, i).val.k = "map" THEN Received(c, i).val.v ELSE EmptyMap

\* the Fields of the custom payload as values of the data map
FieldValues == [key \in DOMAIN TheCustomPayload.Fields |-> JStr(TheCustomPayload.Fields[key])]

\* the data map call c built its payload from: the timestamp is the one the
\* body carries
BaseDataOf(c, now) == BaseData(args[c].title, args[c].message, now)

\* the statement of C10 as it stands: with the alert/env template and Fields
\* {environment: v} the object has alert = title, details = message and
\* env = v; with no template the object is the base data with every Fields
\* entry added, whatever else the custom payload sets.
FieldsMergedIntoPayload ==
  \A c \in Calls : \A i \in 1..Len(sent[c]) :
    /\ (/\ TheCustomPayload.Template = AlertEnvTemplate
        /\ DOMAIN TheCustomPayload.Fields = {W("environment")})
       => /\ Lookup(ReceivedObject(c, i), W("alert")) = JStr(args[c].title)
          /\ Lookup(ReceivedObject(c, i), W("details")) = JStr(args[c].message)
          /\ Lookup(ReceivedObject(c, i), W("env")) = FieldValues[W("environment")]
    /\ TheCustomPayload.Template = Empty
       => \E now \in 0..MaxClock :
            ReceivedObject(c, i) = CopyInto(BaseDataOf(c, now), FieldValues)

\* m with the field-name mappings of the custom payload written on top: the
\* title first, then the message
WithMappedFields(m, c) ==
  LET withTitle == IF TheCustomPayload.TitleField # Empty /\ TheCustomPayload.IncludeTitle
                   THEN Put(m, TheCustomPayload.TitleField, JStr(args[c].title)) ELSE m
  IN IF TheCustomPayload.MessageField # Empty /\ TheCustomPayload.IncludeMessage
     THEN Put(withTitle, TheCustomPayload.MessageField, JStr(args[c].message)) ELSE withTitle

\* C10, amended: with the alert/env template, Fields {environment: v} and no
\* field-name mapping in force, the object has alert = title, details =
\* message and env = v; with no template the object is the base data with
\* every Fields entry added (a Fields key overriding a base key of the same
\* name) and then the title written under TitleField and the message under
\* MessageField where such a mapping is in force (overriding a base key or a
\* Fields entry of the same name).
FieldsThenMappingsMergedIntoPayload ==
  \A c \in Calls : \A i \in 1..Len(sent[c]) :
    /\ (/\ TheCustomPayload.Template = AlertEnvTemplate
        /\ DOMAIN TheCustomPayload.Fields = {W("environment")}
        /\ NoFieldMapping)
       => /\ Lookup(ReceivedObject(c, i), W("alert")) = JStr(args[c].title)
          /\ Lookup(ReceivedObject(c, i), W("details")) = JStr(args[c].message)
          /\ Lookup(ReceivedObject(c, i), W("env")) = FieldValues[W("environment")]
    /\ TheCustomPayload.Template = Empty
       => \E now \in 0..MaxClock :
            ReceivedObject(c, i) =
              WithMappedFields(CopyInto(BaseDataOf(c, now), FieldValues), c)

\* no template, a Fields entry that overrides the base key title, and a
\* mapping that writes the title under headline: all three are in the body
FieldsAndMappingSent ==
  /\ TheCustomPayload.Template = Empty
  /\ W("title") \in DOMAIN TheCustomPayload.Fields
  /\ TheCustomPayload.TitleField = W("headline") /\ TheCustomPayload.IncludeTitle
  /\ args[1].title = <<LF>>
  /\ pc[1] = "done" /\ Len(sent[1]) = 1
  /\ ReceivedObject(1, 1)[W("title")] = JStr(W("overridden"))
  /\ ReceivedObject(1, 1)[W("headline")] = JStr(<<LF>>)
  /\ ReceivedObject(1, 1)[W("environment")] = JStr(W("production"))

(***************************************************************************)
(* Authentication (SpecAuth).                                              *)
(***************************************************************************)
\* the spellings of AuthType drawn: the three modes in several cases, and a
\* mode the code does not know
AuthTypes ==
  {W("bearer"), W("Bearer"), W("BEARER"), W("basic"), W("Basic"), W("BASIC"),
   W("apikey"), W("ApiKey"), W("APIKEY"), W("digest")}

AuthTokens == {Empty, W("test-token-123")}
AuthUsernames == {Empty, <<"u">>, <<"u", "1">>}
AuthPasswords == {Empty, <<"p">>, <<"p", "1">>}
AuthHeaders == {Empty, W("X-Auth-Key")}

\* the configured Headers drawn: none, one that has the name of an
\* authentication header, one that has not
ConfiguredHeaders ==
  {EmptyMap,
   (W("Authorization") :> W("configured")) @@ (W("X-API-Key") :> W("configured")),
   W("X-Source") :> W("ponghub")}

AuthConfigs ==
  {[BaseConfig EXCEPT !.AuthType = at, !.AuthToken = tok, !.AuthUsername = u,
                      !.AuthPassword = pw, !.AuthHeader = h, !.Headers = hs] :
     at \in AuthTypes, tok \in AuthTokens, u \in AuthUsernames, pw \in AuthPasswords,
     h \in AuthHeaders, hs \in ConfiguredHeaders}

InitAuth == InitWith(AuthConfigs, {Empty}, {"ok"}, {1}, {TestTitle}, {TestMessage})

SpecAuth == InitAuth /\ [][Next]_vars

\* C5: with AuthType "bearer" and a token T, every request of Send carries
\* the header Authorization with the value "Bearer T", whatever headers are
\* configured; and Send sends a request.
BearerTokenInAuthorizationHeader ==
  \A c \in Calls :
    (config.AuthType = W("bearer") /\ config.AuthToken # Empty)
    => /\ pc[c] = "done" => Len(sent[c]) >= 1
       /\ \A i \in 1..Len(sent[c]) :
            /\ W("Authorization") \in DOMAIN sent[c][i].headers
            /\ sent[c][i].headers[W("Authorization")] = <<"Bearer", SP>> \o config.AuthToken

\* the test's run, with an Authorization header configured as well
BearerRequestSent ==
  /\ config.AuthType = W("bearer") /\ config.AuthToken = W("test-token-123")
  /\ W("Authorization") \in DOMAIN config.Headers
  /\ pc[1] = "done" /\ result[1] = NoError /\ Len(sent[1]) = 1
  /\ sent[1][1].headers[W("Authorization")] = <<"Bearer", SP, "test-token-123">>

\* the value of a base64 character
SextetOf(ch) == (CHOOSE n \in 1..64 : Base64Alphabet[n] = ch) - 1

RECURSIVE DecodeBase64(_)
\* what a receiver decodes from padded base64 text: four characters give up
\* to three bytes; <<-1>> when the text is not padded base64
DecodeBase64(s) ==
  IF s = <<>> THEN <<>>
  ELSE IF Len(s) < 4 \/ s[1] = "=" \/ s[2] = "=" THEN <<-1>>
  ELSE LET a == SextetOf(s[1])
           b == SextetOf(s[2])
       IN IF s[3] = "="
          THEN IF Len(s) = 4 /\ s[4] = "=" THEN <<a * 4 + b \div 16>> ELSE <<-1>>
          ELSE LET cc == SextetOf(s[3]) IN
               IF s[4] = "="
               THEN IF Len(s) = 4 THEN <<a * 4 + b \div 16, (b % 16) * 16 + cc \div 4>>
                    ELSE <<-1>>
               ELSE <<a * 4 + b \div 16, (b % 16) * 16 + cc \div 4, (cc % 4) * 64 + SextetOf(s[4])>>
                    \o DecodeBase64(Drop(s, 4))

\* the bytes of "username:password"
CredentialBytes ==
  LET cred == config.AuthUsername \o <<":">> \o config.AuthPassword
  IN [i \in DOMAIN cred |-> ByteOf(cred[i])]

\* the mode configured, whatever the case it is written in
ModeIs(lower, capital, upper) == config.AuthType \in {W(lower), W(capital), W(upper)}

\* the headers of a request are the configured ones and the one header name
OneHeaderAdded(headers, name) ==
  /\ DOMAIN headers = (DOMAIN config.Headers) \cup {name}
  /\ \A h \in (DOMAIN config.Headers) \ {name} : headers[h] = config.Headers[h]

\* C9: each mode, its name in any case and its credentials complete, puts
\* exactly one authentication header on every request, next to the
\* configured headers: bearer, Authorization: Bearer <token>; basic,
\* Authorization: Basic <base64 of username:password>; apikey,
\* <AuthHeader>: <token>, the header being X-API-Key when AuthHeader is empty.
OneAuthenticationHeaderPerMode ==
  \A c \in Calls : \A i \in 1..Len(sent[c]) :
    LET headers == sent[c][i].headers IN
    /\ (ModeIs("bearer", "Bearer", "BEARER") /\ config.AuthToken # Empty)
       => /\ OneHeaderAdded(headers, W("Authorization"))
          /\ headers[W("Authorization")] = <<"Bearer", SP>> \o config.AuthToken
    /\ (ModeIs("basic", "Basic", "BASIC")
        /\ config.AuthUsername # Empty /\ config.AuthPassword # Empty)
       => /\ OneHeaderAdded(headers, W("Authorization"))
          /\ HasPrefix(headers[W("Authorization")], <<"Basic", SP>>)
          /\ DecodeBase64(Drop(headers[W("Authorization")], 2)) = CredentialBytes
    /\ (ModeIs("apikey", "ApiKey", "APIKEY") /\ config.AuthToken # Empty)
       => LET name == IF config.AuthHeader # Empty THEN config.AuthHeader ELSE W("X-API-Key")
          IN /\ OneHeaderAdded(headers, name)
             /\ headers[name] = config.AuthToken

\* basic credentials whose encoding needs padding, with the mode in capitals
BasicRequestSent ==
  /\ config.AuthType = W("BASIC")
  /\ config.AuthUsername = <<"u", "1">> /\ config.AuthPassword = <<"p">>
  /\ pc[1] = "done" /\ Len(sent[1]) = 1
  /\ sent[1][1].headers[W("Authorization")] =
       <<"Basic", SP, "d", "T", "E", "6", "c", "A", "=", "=">>

\* an API key under the configured header name, with the mode in mixed case
ApiKeyRequestSent ==
  /\ config.AuthType = W("ApiKey") /\ config.AuthHeader = W("X-Auth-Key")
  /\ config.AuthToken # Empty
  /\ pc[1] = "done" /\ Len(sent[1]) = 1
  /\ sent[1][1].headers[W("X-Auth-Key")] = config.AuthToken

(***************************************************************************)
(* Concurrent calls of Send on one notifier (SpecConc).                    *)
(***************************************************************************)
\* a configuration with headers and authentication
BearerConfig ==
  [BaseConfig EXCEPT !.Headers = W("X-Source") :> W("ponghub"),
                     !.AuthType = W("bearer"), !.AuthToken = W("test-token-123")]

InitConc ==
  InitWith({BaseConfig, BearerConfig}, {Empty}, {"ok"}, 1..NumCalls,
           {W("Test"), W("é")}, {W("Message")})

SpecConc == InitConc /\ [][Next]_vars

\* the calls that have returned
Returned == {c \in Calls : pc[c] = "done"}

\* the state of call c
CallState(c) == <<pc[c], args[c], local[c], sent[c], replies[c], result[c]>>

\* a step leaves the notifier and the environment as they are and changes
\* the state of one call only
StepOfOneCall ==
  /\ config' = config /\ env' = env /\ args' = args
  /\ \E c \in Calls : \A d \in Calls \ {c} : CallState(d)' = CallState(d)

\* every call that has returned returned nil after one request; the server
\* has received one request per returned call; the payload, the body and the
\* headers of a call are made from its own arguments and the configuration
EachCallSendsItsOwnRequest ==
  /\ requestCount = Cardinality(Returned)
  /\ \A c \in Calls :
       /\ pc[c] = "done" => result[c] = NoError /\ Len(sent[c]) = 1
       /\ pc[c] # "done" => sent[c] = <<>>
       /\ pc[c] \in {"built", "sending", "done"}
          => /\ local[c].payload.k = "map"
             /\ local[c].payload.v[W("title")] = JStr(args[c].title)
             /\ local[c].payload.v[W("message")] = JStr(args[c].message)
       /\ pc[c] \in {"sending", "done"}
          => /\ local[c].body.data = Marshal(local[c].payload)
             /\ DOMAIN local[c].headers
                  = (DOMAIN config.Headers)
                    \cup (IF config.AuthType = Empty THEN {} ELSE {W("Authorization")})
       /\ \A i \in 1..Len(sent[c]) :
            /\ sent[c][i].body = local[c].body
            /\ sent[c][i].headers = local[c].headers
            /\ ReceivedObject(c, i)[W("title")] = JStr(args[c].title)

\* C8: under every interleaving of the concurrent calls of Send against a
\* server that always answers 2xx, every call returns nil, the server
\* receives one request per call (N in all once all have returned), each
\* call builds its own payload and headers from its own arguments, and no
\* step of a call changes the notifier or the state of another call.
ConcurrentSendsAreIndependent == []EachCallSendsItsOwnRequest /\ [][StepOfOneCall]_vars

\* all calls have returned, with different titles, and the server has
\* received one request from each
AllCallsReturned ==
  /\ Returned = Calls
  /\ Cardinality(Calls) = NumCalls
  /\ requestCount = NumCalls
  /\ args[1].title # args[2].title
  /\ \A c \in Calls : result[c] = NoError

(***************************************************************************)
(* The default payload (SpecDefault).                                      *)
(***************************************************************************)
DefaultConfigs ==
  {[BaseConfig EXCEPT !.Method = m, !.ContentType = ct] :
     m \in {Empty, W("post"), W("PUT")}, ct \in {Empty, TextPlain}}

InitDefault == InitWith(DefaultConfigs, {Empty}, {"ok"}, {1}, Titles, Messages)

SpecDefault == InitDefault /\ [][Next]_vars

\* C7: with no custom payload, no template and no format the body is the
\* object {"title": title, "message": message, "timestamp": <RFC3339 time>,
\* "service": "ponghub"}: title and message are the arguments of Send, the
\* service is "ponghub", and the object has exactly these four keys.
DefaultBodyHasFourKeys ==
  \A c \in Calls : \A i \in 1..Len(sent[c]) :
    (config.CustomPayload = Nil /\ config.Template = Empty /\ config.Format = Empty)
    => /\ Received(c, i).ok
       /\ Received(c, i).val.k = "map"
       /\ Lookup(ReceivedObject(c, i), W("title")) = JStr(args[c].title)
       /\ Lookup(ReceivedObject(c, i), W("message")) = JStr(args[c].message)
       /\ Lookup(ReceivedObject(c, i), W("service")) = JStr(W("ponghub"))
       /\ \E t \in 0..MaxClock :
            Lookup(ReceivedObject(c, i), W("timestamp")) = JStr(FormatRFC3339(t))
       /\ DOMAIN ReceivedObject(c, i) = {W("title"), W("message"), W("timestamp"), W("service")}

(***************************************************************************)
(* Preset formats (SpecFormat).                                            *)
(***************************************************************************)
\* the format names drawn: slack in three spellings, the other presets, and
\* a name the code does not know
FormatNames ==
  {W("slack"), W("Slack"), W("SLACK"), W("discord"), W("teams"), W("mattermost"),
   W("custom")}

FormatConfigs ==
  {[BaseConfig EXCEPT !.Format = f, !.ContentType = ct] :
     f \in FormatNames, ct \in {Empty, TextPlain}}

InitFormat == InitWith(FormatConfigs, {Empty}, {"ok"}, {1}, Titles, Messages)

SpecFormat == InitFormat /\ [][Next]_vars

\* the first element of the attachments the server decodes; nil when the
\* object has no non-empty attachments array
FirstAttachment(c, i) ==
  LET attachments == Lookup(ReceivedObject(c, i), W("attachments"))
  IN IF attachments.k = "slice" /\ Len(attachments.v) >= 1 THEN attachments.v[1] ELSE JNil

\* C11: with a preset format and no custom payload or template, the body is
\* JSON of the preset's schema: for slack, in any case, the object has
\* text = "*" + title + "*" and a non-empty attachments array whose first
\* element has text = message; a format name that is not known gives the
\* default data object; the content type is application/json and Send does
\* not fail.
PresetFormatShapesBody ==
  \A c \in Calls :
    (config.CustomPayload = Nil /\ config.Template = Empty /\ config.Format # Empty)
    => /\ pc[c] = "done" => (result[c] = NoError /\ Len(sent[c]) = 1)
       /\ \A i \in 1..Len(sent[c]) :
            /\ sent[c][i].contentType = ApplicationJSON
            /\ Received(c, i).ok
            /\ config.Format \in {W("slack"), W("Slack"), W("SLACK")}
               => /\ Lookup(ReceivedObject(c, i), W("text"))
                       = JStr(<<"*">> \o args[c].title \o <<"*">>)
                  /\ FirstAttachment(c, i).k = "map"
                  /\ Lookup(FirstAttachment(c, i).v, W("text")) = JStr(args[c].message)
            /\ config.Format = W("custom")
               => \E now \in 0..MaxClock : ReceivedObject(c, i) = BaseDataOf(c, now)

\* slack written in capitals, sent with a quote for the title and a newline
\* for the message
SlackSentInCapitals ==
  /\ config.Format = W("SLACK")
  /\ args[1].title = <<Q>> /\ args[1].message = <<LF>>
  /\ pc[1] = "done" /\ result[1] = NoError /\ Len(sent[1]) = 1
  /\ ReceivedObject(1, 1)[W("text")] = JStr(<<"*", Q, "*">>)
  /\ FirstAttachment(1, 1).v[W("text")] = JStr(<<LF>>)

\* a format name that is not known, sent as the default data object
UnknownFormatFellBack ==
  /\ config.Format = W("custom")
  /\ pc[1] = "done" /\ result[1] = NoError /\ Len(sent[1]) = 1
  /\ W("service") \in DOMAIN ReceivedObject(1, 1)

(***************************************************************************)
(* The content type of the request (SpecContentType).                      *)
(***************************************************************************)
\* the custom payloads drawn: no template, a template the structured branch
\* takes, one that renders to JSON unless the message breaks it, one that
\* renders to plain text; each with and without a content type of its own
ContentTypeCustomPayloads ==
  {[BaseCustomPayload EXCEPT !.Template = t, !.ContentType = ct,
                             !.Fields = W("environment") :> W("production")] :
     t \in {Empty, AlertTemplateSpaced, CustomTemplate, PlainTextTemplate},
     ct \in {Empty, W("application/xml")}}

ContentTypeConfigs ==
  {[BaseConfig EXCEPT !.CustomPayload = Ptr(cp), !.Template = t, !.ContentType = ct] :
     cp \in ContentTypeCustomPayloads, t \in {Empty, JSONTemplate},
     ct \in {Empty, W("text/markdown")}}
  \cup {[BaseConfig EXCEPT !.Template = t, !.Format = f, !.ContentType = ct] :
          t \in {Empty, JSONTemplate, PlainTextTemplate}, f \in {Empty, W("slack")},
          ct \in {Empty, W("text/markdown")}}

InitContentType == InitWith(ContentTypeConfigs, {Empty}, {"ok"}, {1}, Titles, Messages)

SpecContentType == InitContentType /\ [][Next]_vars

\* what a template that parses renders to over data
RenderedOutput(templateStr, data) == Execute(ParseTemplate(templateStr).nodes, data).out

\* ct when it is set, else the fallback
ConfiguredOr(ct, fallback) == IF ct # Empty THEN ct ELSE fallback

\* the request carries the rendered text out as it is, with the content type
\* of JSON output when out is JSON and that of plain output when it is not
RenderedRequest(req, out, jsonType, plainType) ==
  IF Unmarshal(out).ok
  THEN req.contentType = jsonType
  ELSE /\ req.contentType = plainType
       /\ req.body = [present |-> TRUE, data |-> out]

\* C12: the content type of the request comes from the builder selected:
\* application/json for the default and the preset payloads; for a custom
\* payload its own ContentType when set, else application/json for an object
\* or template output that is JSON and text/plain for template output that is
\* not; for a top-level template application/json whenever the output is
\* JSON, whatever ContentType is configured, else the configured ContentType
\* or text/plain.  Template output that is not JSON is the body as it is.
ContentTypeFollowsBuilder ==
  \A c \in Calls : \A i \in 1..Len(sent[c]) :
    \E now \in 0..MaxClock :
      LET req == sent[c][i]
          data == BaseDataOf(c, now)
      IN IF config.CustomPayload # Nil
         THEN LET ct == TheCustomPayload.ContentType IN
              IF TheCustomPayload.Template \in {Empty, AlertTemplateSpaced}
              THEN req.contentType = ConfiguredOr(ct, ApplicationJSON)
              ELSE RenderedRequest(req,
                     RenderedOutput(TheCustomPayload.Template,
                                    CopyInto(data, FieldValues)),
                     ConfiguredOr(ct, ApplicationJSON), ConfiguredOr(ct, TextPlain))
         ELSE IF config.Template # Empty
         THEN RenderedRequest(req, RenderedOutput(config.Template, data),
                              ApplicationJSON, ConfiguredOr(config.ContentType, TextPlain))
         ELSE req.contentType = ApplicationJSON

\* a top-level template whose output is JSON, sent as application/json
\* although another content type is configured
JSONTemplateSentAsJSON ==
  /\ config.CustomPayload = Nil /\ config.Template = JSONTemplate
  /\ config.ContentType = W("text/markdown")
  /\ args[1].title = W("é")
  /\ pc[1] = "done" /\ Len(sent[1]) = 1
  /\ sent[1][1].contentType = ApplicationJSON
  /\ ReceivedObject(1, 1)[W("text")] = JStr(W("é"))

\* the same template with a quote for the title: the output is not JSON and
\* goes out as it is, under the configured content type
BrokenJSONSentRaw ==
  /\ config.CustomPayload = Nil /\ config.Template = JSONTemplate
  /\ config.ContentType = W("text/markdown")
  /\ args[1].title = <<Q>>
  /\ pc[1] = "done" /\ Len(sent[1]) = 1
  /\ sent[1][1].contentType = W("text/markdown")
  /\ sent[1][1].body.data = <<"{", Q, "text", Q, ":", SP, Q, Q, Q, "}">>

\* a custom payload's plain-text template with no content type anywhere:
\* text/plain
CustomPlainTextSent ==
  /\ config.CustomPayload # Nil
  /\ TheCustomPayload.Template = PlainTextTemplate /\ TheCustomPayload.ContentType = Empty
  /\ pc[1] = "done" /\ Len(sent[1]) = 1
  /\ sent[1][1].contentType = TextPlain
  /\ sent[1][1].body.data = <<"ALERT", ":", SP>> \o args[1].title

(***************************************************************************)
(* Failures before the send step (SpecEarlyFailure).                       *)
(***************************************************************************)
\* the value of WEBHOOK_URL when it is set
EnvironmentURL == <<"http://", "10.0.0.1">>

\* {{nosuch .Title}}: a function the template does not define
UnknownFunctionTemplate == <<"{{", "nosuch", SP, ".", "Title", "}}">>

\* {{jsonEscape .missing}}: parses, and fails when executed
MissingFieldTemplate == <<"{{", "jsonEscape", SP, ".", "missing", "}}">>

\* the templates with which payload construction fails
FailingTemplates == {BrokenTemplate, UnknownFunctionTemplate, MissingFieldTemplate}

EarlyFailureConfigs ==
  {[BaseConfig EXCEPT !.URL = u, !.Template = t, !.CustomPayload = cp, !.Retries = r] :
     u \in {Empty, ServerURL},
     t \in {JSONTemplate} \cup FailingTemplates,
     cp \in {Nil} \cup {Ptr([BaseCustomPayload EXCEPT !.Template = ct]) :
                           ct \in {CustomTemplate, BrokenTemplate, MissingFieldTemplate}},
     r \in {0, MaxRetries}}

InitEarlyFailure ==
  InitWith(EarlyFailureConfigs, {Empty, EnvironmentURL}, {"any"}, {1},
           {TestTitle}, {TestMessage, <<Q>>})

SpecEarlyFailure == InitEarlyFailure /\ [][Next]_vars

\* the template buildPayload renders: the custom payload's when there is a
\* custom payload, else the top-level one
TemplateInForce ==
  IF config.CustomPayload # Nil THEN TheCustomPayload.Template ELSE config.Template

NoURL == config.URL = Empty /\ env = Empty

\* call c has sent nothing and will send nothing
NothingSent(c) ==
  /\ sent[c] = <<>> /\ replies[c] = <<>>
  /\ pc[c] \in {"start", "done"}
  /\ local[c].attempt = 0

\* C13: Send sends no request when it fails before the send step.  With no
\* URL configured and none in WEBHOOK_URL it returns "webhook URL not
\* configured"; when the template does not parse or does not execute it
\* returns a "failed to build webhook payload" error; in both cases no
\* request goes out, whatever retry count is configured.  A configured URL
\* is the URL of every request, whatever WEBHOOK_URL holds.
NoRequestOnEarlyFailure ==
  /\ \A c \in Calls :
       /\ NoURL
          => /\ NothingSent(c)
             /\ pc[c] = "done" => result[c] = Errorf(<<"webhook URL not configured">>)
       /\ (~NoURL /\ TemplateInForce \in FailingTemplates)
          => /\ NothingSent(c)
             /\ pc[c] = "done"
                => /\ result[c].kind = "error"
                   /\ HasPrefix(result[c].Message, <<"failed to build webhook payload: ">>)
       /\ \A i \in 1..Len(sent[c]) :
            sent[c][i].url = IF config.URL # Empty THEN config.URL ELSE env
  /\ (NoURL \/ TemplateInForce \in FailingTemplates) => requestCount = 0

\* a template that does not parse, retries configured: Send has returned the
\* build error and the server has seen nothing
BuildFailedNothingSent ==
  /\ config.URL = ServerURL /\ config.CustomPayload = Nil
  /\ config.Template = BrokenTemplate /\ config.Retries = MaxRetries
  /\ pc[1] = "done"
  /\ result[1] = Errorf(<<"failed to build webhook payload: ", "failed to parse template: ">>)
  /\ requestCount = 0

\* no URL anywhere: Send has returned and the server has seen nothing
NoURLNothingSent ==
  /\ NoURL /\ config.Retries = MaxRetries
  /\ pc[1] = "done" /\ result[1].Message = <<"webhook URL not configured">>
  /\ requestCount = 0

\* a template that fails when executed, inside a custom payload
ExecutionFailedNothingSent ==
  /\ config.URL = Empty /\ env = EnvironmentURL
  /\ config.CustomPayload # Nil /\ TheCustomPayload.Template = MissingFieldTemplate
  /\ pc[1] = "done"
  /\ result[1] = Errorf(<<"failed to build webhook payload: ", "failed to execute template: ">>)
  /\ requestCount = 0

\* both URLs set: the request went to the configured one
ConfiguredURLWonOverEnvironment ==
  /\ config.URL = ServerURL /\ env = EnvironmentURL
  /\ pc[1] = "done" /\ Len(sent[1]) >= 1
  /\ sent[1][1].url = ServerURL

(***************************************************************************)
(* The configuration across calls of Send (SpecFrame).                     *)
(***************************************************************************)
\* the custom payloads drawn: none, one with Fields and a field-name mapping
\* onto a Fields key, one whose template fails
FrameCustomPayloads ==
  {Nil,
   Ptr([BaseCustomPayload EXCEPT !.Fields = W("environment") :> W("production"),
                                 !.TitleField = W("environment"),
                                 !.IncludeTitle = TRUE]),
   Ptr([BaseCustomPayload EXCEPT !.Fields = W("environment") :> W("production"),
                                 !.Template = MissingFieldTemplate])}

FrameConfigs ==
  {[BaseConfig EXCEPT !.Headers = hs, !.AuthType = at, !.AuthToken = W("test-token-123"),
                      !.CustomPayload = cp] :
     hs \in ConfiguredHeaders \ {EmptyMap}, at \in {Empty, W("bearer"), W("apikey")},
     cp \in FrameCustomPayloads}

InitFrame ==
  InitWith(FrameConfigs, {Empty}, {"any"}, 1..NumCalls, {TestTitle}, {TestMessage})

SpecFrame == InitFrame /\ [][Next]_vars

\* the name of the header the configured mode writes; empty when there is
\* no mode
AuthenticationHeaderName ==
  IF config.AuthType = W("bearer") THEN W("Authorization")
  ELSE IF config.AuthType = W("apikey") THEN W("X-API-Key")
  ELSE Empty

\* every configured header is on every request with its configured value,
\* but for the one that has the name of the authentication header: that one
\* carries the credential on the request and its configured value in the
\* configuration
AuthenticationOnlyInTheCopy ==
  \A c \in Calls : \A i \in 1..Len(sent[c]) :
    LET headers == sent[c][i].headers IN
    /\ DOMAIN config.Headers \subseteq DOMAIN headers
    /\ \A h \in DOMAIN config.Headers :
         IF h = AuthenticationHeaderName
         THEN /\ headers[h] \in {BearerValue(config.AuthToken), config.AuthToken}
              /\ config.Headers[h] = W("configured")
         ELSE headers[h] = config.Headers[h]

\* a step of Send leaves the configuration as it was, the Headers and the
\* Fields of the custom payload included
ConfigUntouched ==
  /\ config' = config
  /\ config'.Headers = config.Headers
  /\ config'.CustomPayload = config.CustomPayload

\* C14: Send leaves the notifier's configuration unchanged: no step of any
\* call, successful or failed, changes the WebhookConfig, its Headers or the
\* Fields of its custom payload; the authentication header is on the
\* request only, where it stands in place of a configured header of the
\* same name, which the configuration keeps.
SendLeavesConfigurationUnchanged ==
  [][ConfigUntouched]_vars /\ []AuthenticationOnlyInTheCopy

\* every call has returned, the first with an error and the last without;
\* the requests carry the bearer token and the configuration still holds
\* the configured Authorization header
CallsReturnedConfigurationKept ==
  /\ Returned = Calls /\ Cardinality(Calls) = NumCalls
  /\ result[1].kind = "WebhookError" /\ result[NumCalls] = NoError
  /\ config.AuthType = W("bearer")
  /\ config.CustomPayload # Nil /\ TheCustomPayload.TitleField = W("environment")
  /\ W("Authorization") \in DOMAIN config.Headers
  /\ config.Headers[W("Authorization")] = W("configured")
  /\ \A c \in Calls :
       sent[c][1].headers[W("Authorization")] = <<"Bearer", SP, "test-token-123">>
  /\ TheCustomPayload.Fields[W("environment")] = W("production")
  /\ ReceivedObject(1, 1)[W("environment")] = JStr(TestTitle)

(***************************************************************************)
(* Incomplete credentials (SpecAuth).                                      *)
(***************************************************************************)
\* a mode is configured and its credentials are not all there, or the mode
\* is none of bearer, basic and apikey
CredentialsIncomplete ==
  \/ ModeIs("bearer", "Bearer", "BEARER") /\ config.AuthToken = Empty
  \/ ModeIs("apikey", "ApiKey", "APIKEY") /\ config.AuthToken = Empty
  \/ ModeIs("basic", "Basic", "BASIC")
     /\ (config.AuthUsername = Empty \/ config.AuthPassword = Empty)
  \/ config.AuthType = W("digest")

\* C15: with a mode configured whose credentials are incomplete (bearer or
\* apikey with no token, basic with no username or no password), or a mode
\* that is not known, no header is added: the request carries the
\* configured headers and nothing else, and Send sends it and returns no
\* error.
IncompleteCredentialsSendUnauthenticated ==
  \A c \in Calls :
    CredentialsIncomplete
    => /\ pc[c] = "done" => (result[c] = NoError /\ Len(sent[c]) = 1)
       /\ pc[c] = "sending" => local[c].headers = config.Headers
       /\ \A i \in 1..Len(sent[c]) : sent[c][i].headers = config.Headers

\* basic with a username and no password: the request went out with the
\* configured header only
BasicWithoutPasswordSent ==
  /\ config.AuthType = W("basic")
  /\ config.AuthUsername = <<"u">> /\ config.AuthPassword = Empty
  /\ config.Headers = W("X-Source") :> W("ponghub")
  /\ pc[1] = "done" /\ result[1] = NoError /\ Len(sent[1]) = 1
  /\ DOMAIN sent[1][1].headers = {W("X-Source")}

\* a mode that is not known, with every credential set: no header
UnknownModeSent ==
  /\ config.AuthType = W("digest")
  /\ config.AuthToken # Empty /\ config.AuthUsername # Empty /\ config.AuthPassword # Empty
  /\ config.Headers = EmptyMap
  /\ pc[1] = "done" /\ result[1] = NoError /\ Len(sent[1]) = 1
  /\ sent[1][1].headers = EmptyMap

\* an API key mode with no token and a header name configured: no header
ApiKeyWithoutTokenSent ==
  /\ config.AuthType = W("APIKEY") /\ config.AuthToken = Empty
  /\ config.AuthHeader = W("X-Auth-Key")
  /\ pc[1] = "done" /\ result[1] = NoError /\ Len(sent[1]) = 1
  /\ W("X-Auth-Key") \notin DOMAIN sent[1][1].headers

====
